---- MODULE Spec2Model ----
(***************************************************************************)
(* A model of datafunctions/datafunctions.py: the datafunction decorator,  *)
(* its construction-time validation, the signature binder it relies on,    *)
(* the four conversion operations, direct invocation, method binding and   *)
(* the lru_cache memo that wraps the class.                                 *)
(***************************************************************************)
EXTENDS Integers, Sequences, FiniteSets, TLC

VARIABLES
    target,     \* the function being decorated and the is_method flag given
    wrapper,    \* the datafunction instance under test (NoWrapper before decoration)
    last,       \* the last operation: its inputs, its outcome, what it handed on
    cache,      \* lru_cache's table, least recently used first: <<[key, inst]>>
    nextInst,   \* identity of the next object the decorated class constructs
    returned,   \* history: what each decoration returned, [func, flag, form, inst]
    pc,         \* per caller: position inside lru_cache's wrapper
    pending     \* per caller: the decoration in flight, [func, form]

vars == <<target, wrapper, last, cache, nextInst, returned, pc, pending>>

(***************************************************************************)
(* Values.  Raw (JSON) and structured values share one universe of tagged  *)
(* pairs: the integer n, the string that spells n, a string that spells no *)
(* number ("abc"), None, and an opaque object (a method's receiver).       *)
(***************************************************************************)
IntV(n) == <<"int", n>>
StrNum(n) == <<"numstr", n>>
StrBad == <<"badstr", 0>>
NoneV == <<"none", 0>>
ObjV == <<"obj", 1>>

EmptyMap == [n \in {} |-> NoneV]
NoError == [type |-> "none", msg |-> << >>]
Error(t, m) == [type |-> t, msg |-> m]

Min(S) == CHOOSE i \in S : \A j \in S : i <= j

\* An operation's outcome: a normal return (of a value or of a mapping) or an
\* exception of type etype whose __cause__ is cause.
Return(v) ==
    [kind |-> "return", value |-> v, mapping |-> EmptyMap, etype |-> "none",
     msg |-> << >>, cause |-> NoError]
ReturnMap(m) ==
    [kind |-> "return", value |-> NoneV, mapping |-> m, etype |-> "none",
     msg |-> << >>, cause |-> NoError]
\* raise etype from cause
RaiseFrom(etype, cause) ==
    [kind |-> "raise", value |-> NoneV, mapping |-> EmptyMap, etype |-> etype,
     msg |-> << >>, cause |-> cause]
\* an exception e that passes through an except clause that does not name it
Propagate(e) ==
    [kind |-> "raise", value |-> NoneV, mapping |-> EmptyMap, etype |-> e.type,
     msg |-> e.msg, cause |-> NoError]
NoOutcome ==
    [kind |-> "none", value |-> NoneV, mapping |-> EmptyMap, etype |-> "none",
     msg |-> << >>, cause |-> NoError]

(***************************************************************************)
(* The schema engine (marshmallow through marshmallow_dataclass), by field *)
(* type.  "int" is fields.Integer(required), "optint" is Optional[int]     *)
(* (allow_none), "custom" is a user-defined field whose conversion raises  *)
(* an error of its own (marshmallow lets such an error through).           *)
(***************************************************************************)
FieldOk(v) == [ok |-> TRUE, value |-> v, err |-> NoError]
FieldErr(t, m) == [ok |-> FALSE, value |-> NoneV, err |-> Error(t, m)]

\* Field.deserialize: int("3") = 3, "abc" and a null for a non-optional field
\* are validation errors.
FieldLoad(type, v) ==
    CASE type = "custom" ->
            IF v[1] = "int" THEN FieldOk(v)
            ELSE FieldErr("LookupError", <<"custom field">>)
      [] v[1] = "none" ->
            IF type = "optint" THEN FieldOk(NoneV)
            ELSE FieldErr("ValidationError", <<"Field may not be null.">>)
      [] v[1] = "int" -> FieldOk(v)
      [] v[1] = "numstr" -> FieldOk(IntV(v[2]))
      [] OTHER -> FieldErr("ValidationError", <<"Not a valid integer.">>)

\* Field.serialize: None stays None, otherwise int(value); nothing is validated,
\* so int("abc") is a ValueError and int(object()) a TypeError.
FieldDump(type, v) ==
    CASE type = "custom" ->
            IF v[1] = "int" THEN FieldOk(v)
            ELSE FieldErr("LookupError", <<"custom field">>)
      [] v[1] = "none" -> FieldOk(NoneV)
      [] v[1] = "int" -> FieldOk(v)
      [] v[1] = "numstr" -> FieldOk(IntV(v[2]))
      [] v[1] = "badstr" -> FieldErr("ValueError", <<"invalid literal for int()">>)
      [] OTHER -> FieldErr("TypeError", <<"int() argument must be a number">>)

RECURSIVE ValidationMessages(_, _, _)
\* the {field: [message]} dictionary of a ValidationError, in field order
ValidationMessages(fields, res, i) ==
    IF i > Len(fields) THEN << >>
    ELSE (IF res[i].ok THEN << >> ELSE <<fields[i].name>> \o res[i].err.msg)
         \o ValidationMessages(fields, res, i + 1)

FieldNames(fields) == {fields[i].name : i \in 1..Len(fields)}
FieldIndex(fields, n) == CHOOSE i \in 1..Len(fields) : fields[i].name = n

\* the outcome of a load whose fields gave res
SchemaLoaded(fields, res, other, invalid) ==
    IF other # {} THEN [ok |-> FALSE, value |-> EmptyMap, err |-> res[Min(other)].err]
    ELSE IF invalid # {}
    THEN [ok |-> FALSE, value |-> EmptyMap,
          err |-> Error("ValidationError", ValidationMessages(fields, res, 1))]
    ELSE [ok |-> TRUE,
          value |-> [n \in FieldNames(fields) |-> res[FieldIndex(fields, n)].value],
          err |-> NoError]

SchemaLoadFields(fields, res) ==
    SchemaLoaded(fields, res,
                 {i \in 1..Len(fields) : ~res[i].ok /\ res[i].err.type # "ValidationError"},
                 {i \in 1..Len(fields) : ~res[i].ok})

\* schema_instance.load(data): every field is loaded; validation errors are
\* collected into one ValidationError, any other error leaves at once.
SchemaLoad(fields, data) ==
    SchemaLoadFields(fields,
        [i \in 1..Len(fields) |-> FieldLoad(fields[i].type, data[fields[i].name])])

\* the outcome of a dump whose fields gave res
SchemaDumped(fields, res, failed) ==
    IF failed # {} THEN [ok |-> FALSE, value |-> EmptyMap, err |-> res[Min(failed)].err]
    ELSE [ok |-> TRUE,
          value |-> [n \in FieldNames(fields) |-> res[FieldIndex(fields, n)].value],
          err |-> NoError]

SchemaDumpFields(fields, res) ==
    SchemaDumped(fields, res, {i \in 1..Len(fields) : ~res[i].ok})

\* schema_instance.dump(obj): the first field that fails raises.
SchemaDump(fields, obj) ==
    SchemaDumpFields(fields,
        [i \in 1..Len(fields) |-> FieldDump(fields[i].type, obj[fields[i].name])])

(***************************************************************************)
(* Function descriptors: what get_type_hints and inspect.signature see.    *)
(***************************************************************************)
Kinds ==
    <<"POSITIONAL_ONLY", "POSITIONAL_OR_KEYWORD", "VAR_POSITIONAL", "KEYWORD_ONLY",
      "VAR_KEYWORD">>

Param(name, kind, ann, hasdefault, default) ==
    [name |-> name, kind |-> kind, ann |-> ann, hasdefault |-> hasdefault,
     default |-> default]

Names(params) == [i \in 1..Len(params) |-> params[i].name]
NameSet(params) == {params[i].name : i \in 1..Len(params)}

(***************************************************************************)
(* datafunction.__init__                                                   *)
(***************************************************************************)
NoWrapper ==
    [present |-> FALSE, name |-> "", params |-> << >>, is_method |-> FALSE,
     hinted_names |-> << >>, params_schema |-> << >>, has_return_schema |-> FALSE,
     return_type |-> "missing"]

\* the instance __init__ leaves behind when no check fails
NewWrapper(fd, is_method, hinted) ==
    [present |-> TRUE, name |-> fd.name, params |-> fd.params, is_method |-> is_method,
     hinted_names |-> Names(hinted),
     params_schema |-> [i \in 1..Len(hinted) |->
                           [name |-> hinted[i].name, type |-> hinted[i].ann]],
     has_return_schema |-> fd.ret # "NoneType",
     return_type |-> fd.ret]

ConstructError(e) == [ok |-> FALSE, wrapper |-> NoWrapper, err |-> e]

\* the two loops of __init__ over hinted_names, then make_schema
Validate(fd, is_method, hinted, missing, badkind) ==
    IF missing # {}
    THEN ConstructError(Error("TypeError",
                              <<"Missing annotation for", hinted[Min(missing)].name>>))
    ELSE IF fd.ret = "missing"
    THEN ConstructError(Error("TypeError", <<"Missing annotation for", "return">>))
    ELSE IF badkind # {}
    THEN ConstructError(Error("TypeError",
                              <<"invalid kind", hinted[Min(badkind)].name,
                                hinted[Min(badkind)].kind>>))
    ELSE [ok |-> TRUE, wrapper |-> NewWrapper(fd, is_method, hinted), err |-> NoError]

ValidateHinted(fd, is_method, hinted) ==
    Validate(fd, is_method, hinted,
             {i \in 1..Len(hinted) : hinted[i].ann = "missing"},
             {i \in 1..Len(hinted) :
                 hinted[i].kind \notin {"POSITIONAL_OR_KEYWORD", "KEYWORD_ONLY"}})

\* The outcome of datafunction.__init__(func, is_method=...): the instance, or
\* the error construction raises.
Construct(fd, is_method) ==
    IF is_method /\ Len(fd.params) = 0
    THEN \* del self.hinted_names[0] on an empty list
         ConstructError(Error("IndexError", <<"list assignment index out of range">>))
    ELSE ValidateHinted(fd, is_method, IF is_method THEN Tail(fd.params) ELSE fd.params)

ReturnSchema(w) == <<[name |-> "_return", type |-> w.return_type]>>
HintedSet(w) == {w.hinted_names[i] : i \in 1..Len(w.hinted_names)}

(***************************************************************************)
(* The signature binder: inspect.Signature.bind followed by                *)
(* BoundArguments.apply_defaults, for signatures without variadic          *)
(* parameters (the only ones a wrapper's hinted parameters can have).      *)
(***************************************************************************)
BindOk(m) == [ok |-> TRUE, arguments |-> m, err |-> NoError]
BindErr(m) == [ok |-> FALSE, arguments |-> EmptyMap, err |-> Error("TypeError", m)]

\* the positional phase: argument i takes parameter i; the arguments that cannot
PosErr(params, args, kwargs) ==
    {i \in 1..Len(args) :
        \/ i > Len(params)
        \/ /\ i <= Len(params)
           /\ \/ params[i].kind \in {"KEYWORD_ONLY", "VAR_KEYWORD"}
              \/ /\ params[i].name \in DOMAIN kwargs
                 /\ params[i].kind # "POSITIONAL_ONLY"}

\* the keyword phase: the parameters left take a keyword or a default; those that
\* get neither
MissingArgs(params, args, kwargs) ==
    {i \in 1..Len(params) :
        /\ i > Len(args)
        /\ \/ /\ params[i].name \notin DOMAIN kwargs
              /\ ~params[i].hasdefault
           \/ /\ params[i].name \in DOMAIN kwargs
              /\ params[i].kind = "POSITIONAL_ONLY"}

PosError(params, i) ==
    IF i > Len(params) \/ params[i].kind \in {"KEYWORD_ONLY", "VAR_KEYWORD"}
    THEN BindErr(<<"too many positional arguments">>)
    ELSE BindErr(<<"multiple values for argument", params[i].name>>)

BoundValue(params, args, kwargs, i) ==
    IF i <= Len(args) THEN args[i]
    ELSE IF params[i].name \in DOMAIN kwargs THEN kwargs[params[i].name]
    ELSE params[i].default

BindWith(params, args, kwargs, posErr, missing, unexpected) ==
    IF posErr # {} THEN PosError(params, Min(posErr))
    ELSE IF missing # {}
    THEN BindErr(<<"missing a required argument", params[Min(missing)].name>>)
    ELSE IF unexpected # {}
    THEN BindErr(<<"got an unexpected keyword argument", CHOOSE k \in unexpected : TRUE>>)
    ELSE BindOk([name \in NameSet(params) |->
                    BoundValue(params, args, kwargs, FieldIndex(params, name))])

\* signature.bind(*args, **kwargs) and apply_defaults()
Bind(params, args, kwargs) ==
    BindWith(params, args, kwargs, PosErr(params, args, kwargs),
             MissingArgs(params, args, kwargs), DOMAIN kwargs \ NameSet(params))

DictsOf(w, b) ==
    [ok |-> b.ok,
     all |-> b.arguments,
     hinted |-> IF b.ok THEN [k \in HintedSet(w) |-> b.arguments[k]] ELSE EmptyMap,
     err |-> b.err]

\* _arguments_dicts: (hinted_arguments, all_arguments), or the binder's error
ArgumentsDicts(w, args, kwargs) == DictsOf(w, Bind(w.params, args, kwargs))

(***************************************************************************)
(* The four conversion operations.                                         *)
(***************************************************************************)
\* load_arguments, were it to raise ArgumentError without 'from e'
LoadedArgumentsLosesCause(w, d, ld) ==
    IF ld.ok
    THEN ReturnMap([k \in DOMAIN d.all |->
                       IF k \in HintedSet(w) THEN ld.value[k] ELSE d.all[k]])
    ELSE IF ld.err.type \in {"TypeError", "ValidationError"}
    THEN RaiseFrom("ArgumentError", NoError)
    ELSE Propagate(ld.err)

\* load_arguments, were it to have no except clause around the schema's load
LoadedArgumentsCatchesNothing(w, d, ld) ==
    IF ld.ok
    THEN ReturnMap([k \in DOMAIN d.all |->
                       IF k \in HintedSet(w) THEN ld.value[k] ELSE d.all[k]])
    ELSE Propagate(ld.err)

\* load_arguments, were it to return the loaded fields alone
LoadedArgumentsDropsReceiver(w, d, ld) ==
    IF ld.ok THEN ReturnMap(ld.value)
    ELSE IF ld.err.type \in {"TypeError", "ValidationError"}
    THEN RaiseFrom("ArgumentError", ld.err)
    ELSE Propagate(ld.err)

\* load_arguments after a successful bind: the loaded fields over all the bound
\* arguments; except (TypeError, ValidationError)
LoadedArguments(w, d, ld) ==
    IF ld.ok
    THEN ReturnMap([k \in DOMAIN d.all |->
                       IF k \in HintedSet(w) THEN ld.value[k] ELSE d.all[k]])
    ELSE IF ld.err.type \in {"TypeError", "ValidationError"}
    THEN RaiseFrom("ArgumentError", ld.err)
    ELSE Propagate(ld.err)

\* the binder's TypeError is caught by the same except clause
LoadArgumentsOf(w, d) ==
    IF ~d.ok THEN RaiseFrom("ArgumentError", d.err)
    ELSE LoadedArguments(w, d, SchemaLoad(w.params_schema, d.hinted))

\* load_arguments(*args, **kwargs)
LoadArguments(w, args, kwargs) == LoadArgumentsOf(w, ArgumentsDicts(w, args, kwargs))

\* dump_arguments after a successful bind; except Exception
DumpedArguments(d, dp) ==
    IF dp.ok THEN ReturnMap(dp.value) ELSE RaiseFrom("ArgumentError", dp.err)

DumpArgumentsOf(w, d) ==
    IF ~d.ok THEN RaiseFrom("ArgumentError", d.err)
    ELSE DumpedArguments(d, SchemaDump(w.params_schema, d.hinted))

\* dump_arguments(*args, **kwargs)
DumpArguments(w, args, kwargs) == DumpArgumentsOf(w, ArgumentsDicts(w, args, kwargs))

\* except Exception as e: raise ReturnError from e
DumpedResult(dp) ==
    IF dp.ok THEN Return(dp.value["_return"]) ELSE RaiseFrom("ReturnError", dp.err)

\* dump_result, were it to lack the test of return_schemas
DumpResultAlwaysDumps(w, result) ==
    DumpedResult(SchemaDump(ReturnSchema(w), [k \in {"_return"} |-> result]))

\* dump_result: None without a return schema, else dump {"_return": result}
DumpResult(w, result) ==
    IF ~w.has_return_schema THEN Return(NoneV)
    ELSE DumpedResult(SchemaDump(ReturnSchema(w), [k \in {"_return"} |-> result]))

\* except ValidationError as e: raise ReturnError from e
LoadedResult(ld) ==
    IF ld.ok THEN Return(ld.value["_return"])
    ELSE IF ld.err.type = "ValidationError" THEN RaiseFrom("ReturnError", ld.err)
    ELSE Propagate(ld.err)

\* load_result: None without a return schema, else load {"_return": result}
LoadResult(w, result) ==
    IF ~w.has_return_schema THEN Return(NoneV)
    ELSE LoadedResult(SchemaLoad(ReturnSchema(w), [k \in {"_return"} |-> result]))

(***************************************************************************)
(* Direct invocation.  fres is what the wrapped callable does when it is   *)
(* called: it returns a value or raises an error of its own.  The result   *)
(* records the steps taken, what the callable received and what            *)
(* dump_result received.                                                    *)
(***************************************************************************)
Invocation(out, inner, trace, funcargs, dumparg) ==
    [out |-> out, inner |-> inner, trace |-> trace, funcargs |-> funcargs,
     dumparg |-> dumparg]

\* __call__, were it to call the function whatever load_arguments did
CallWithCallsFirst(w, la, fres) ==
    IF fres.kind = "raise"
    THEN Invocation(fres, la, <<"func">>, la.mapping, NoneV)
    ELSE IF la.kind = "raise"
    THEN Invocation(la, la, <<"func", "load_arguments">>, la.mapping, NoneV)
    ELSE Invocation(DumpResult(w, fres.value), la,
                    <<"func", "load_arguments", "dump_result">>, la.mapping, fres.value)

\* __call__ once load_arguments has returned or raised la
CallWith(w, la, fres) ==
    IF la.kind = "raise"
    THEN Invocation(la, la, <<"load_arguments">>, EmptyMap, NoneV)
    ELSE IF fres.kind = "raise"
    THEN Invocation(fres, la, <<"load_arguments", "func">>, la.mapping, NoneV)
    ELSE Invocation(DumpResult(w, fres.value), la,
                    <<"load_arguments", "func", "dump_result">>, la.mapping, fres.value)

\* __call__: data = load_arguments(...); result = func(**data); dump_result(result)
Call(w, args, kwargs, fres) == CallWith(w, LoadArguments(w, args, kwargs), fres)

\* the bound form, were it to leave the instance out
BoundArgsDropsInstance(instance, args) == args

\* __get__: method(instance_self, *args, **kwargs) calls
\* self(instance_self, *args, **kwargs)
BoundArgs(instance, args) == <<instance>> \o args

(***************************************************************************)
(* The decorated functions of the model: those of the repository's tests,  *)
(* and one whose parameter has a user-defined field type.                  *)
(***************************************************************************)
POK == "POSITIONAL_OR_KEYWORD"

FuncTable ==
    [foo |->        \* def foo(x: int, y: int = 0) -> int
        [name |-> "foo",
         params |-> <<Param("x", POK, "int", FALSE, NoneV),
                      Param("y", POK, "int", TRUE, IntV(0))>>,
         ret |-> "int"],
     method |->     \* def method(self, x: int) -> int
        [name |-> "method",
         params |-> <<Param("self", POK, "missing", FALSE, NoneV),
                      Param("x", POK, "int", FALSE, NoneV)>>,
         ret |-> "int"],
     returns_none |->   \* def returns_none(x: int) -> None
        [name |-> "returns_none",
         params |-> <<Param("x", POK, "int", FALSE, NoneV)>>,
         ret |-> "NoneType"],
     optional |->   \* def optional(x: Optional[int]) -> Optional[int]
        [name |-> "optional",
         params |-> <<Param("x", POK, "optint", FALSE, NoneV)>>,
         ret |-> "optint"],
     custom |->     \* def custom(x: Custom) -> Custom
        [name |-> "custom",
         params |-> <<Param("x", POK, "custom", FALSE, NoneV)>>,
         ret |-> "custom"]]

Funcs == DOMAIN FuncTable

\* the longest positional argument list a call of the model passes
MaxArgs == 2

ArgValues == {IntV(3), StrNum(3), StrBad, NoneV, ObjV}
KwNames == {"x", "w"}
KwValues == {IntV(3)}
ResultValues == {IntV(3), StrNum(3), StrBad, NoneV}

ArgSeqs == UNION {[1..k -> ArgValues] : k \in 0..MaxArgs}
KwargSets == UNION {[S -> KwValues] : S \in SUBSET KwNames}

\* what the wrapped callable may do when called: return any value, or raise
FuncOutcomes ==
    {Return(v) : v \in ResultValues}
    \cup {Propagate(Error("ValueError", <<"raised by the wrapped callable">>))}

NoLast ==
    [op |-> "none", args |-> << >>, kwargs |-> EmptyMap, arg |-> NoneV,
     fres |-> NoOutcome, instance |-> NoneV, out |-> NoOutcome, inner |-> NoOutcome,
     trace |-> << >>, funcargs |-> EmptyMap, dumparg |-> NoneV, error |-> NoError]

NoTarget == [fd |-> [name |-> "", params |-> << >>, ret |-> "missing"], is_method |-> FALSE]

(***************************************************************************)
(* The memo: @lru_cache() around the class, whose metaclass __call__       *)
(* constructs an instance when given a function and returns                *)
(* partial(datafunction, is_method=...) when given none.                   *)
(***************************************************************************)
\* lru_cache()'s default maxsize
maxsize == 128

\* callers that may decorate at the same time
NumCallers == 2
Callers == 1..NumCallers

\* callables are told apart by identity: a function of the table, or one of
\* the other decorated functions of the program
Fn(name) == <<name, 0>>
Filler(i) == <<"filler", i>>
NoFunc == <<"none", 0>>

\* def filler(x: int) -> int
FillerDesc ==
    [name |-> "filler", params |-> <<Param("x", POK, "int", FALSE, NoneV)>>, ret |-> "int"]

Desc(c) == IF c[1] = "filler" THEN FillerDesc ELSE FuncTable[c[1]]

\* The ways to decorate f:
\*   bare             datafunction(f)
\*   kw_false         datafunction(f, is_method=False)
\*   kw_true          datafunction(f, is_method=True)
\*   factory_default  datafunction()(f)
\*   factory_true     datafunction(is_method=True)(f)
Forms == {"bare", "kw_false", "kw_true", "factory_default", "factory_true"}
FactoryForms == {"factory_default", "factory_true"}

\* the method flag a form denotes
FormFlag(form) == form \in {"kw_true", "factory_true"}

\* lru_cache's key is made of the arguments as written: the positional ones,
\* then the keyword ones; a keyword left out is not part of the key
MakeKey(func, kw) == [func |-> func, kw |-> kw]

\* the key of the call that constructs the instance; a partial passes
\* is_method by keyword
InstanceKey(f, form) ==
    MakeKey(f, CASE form = "bare" -> "absent"
                 [] form \in {"kw_false", "factory_default"} -> "False"
                 [] OTHER -> "True")

\* the key of the call datafunction() or datafunction(is_method=True)
FactoryKey(form) == MakeKey(NoFunc, IF form = "factory_default" THEN "absent" ELSE "True")

Find(c, key) == {i \in 1..Len(c) : c[i].key = key}

\* a hit moves the entry to the most recently used end
Touch(c, i) == SubSeq(c, 1, i - 1) \o SubSeq(c, i + 1, Len(c)) \o <<c[i]>>

\* a miss stores the result; a full cache drops its least recently used entry
Insert(c, key, inst) ==
    IF Len(c) >= maxsize THEN Append(Tail(c), [key |-> key, inst |-> inst])
    ELSE Append(c, [key |-> key, inst |-> inst])

CallResult(c, n, inst, raised) == [cache |-> c, next |-> n, inst |-> inst, raised |-> raised]

\* one call through lru_cache's wrapper that nothing interleaves with: found is
\* where the key is, constructs whether the wrapped call returns an object
CachedCallAt(S, key, found, constructs) ==
    IF found # {} THEN CallResult(Touch(S.cache, Min(found)), S.next,
                                  S.cache[Min(found)].inst, FALSE)
    ELSE IF ~constructs THEN CallResult(S.cache, S.next, 0, TRUE)
    ELSE CallResult(Insert(S.cache, key, S.next), S.next + 1, S.next, FALSE)

CachedCall(S, key, constructs) == CachedCallAt(S, key, Find(S.cache, key), constructs)

\* datafunction() and datafunction(is_method=True) go through the cache too:
\* the partial they return is cached under their own key
ThroughFactory(S, form) ==
    IF form \in FactoryForms THEN CachedCall(S, FactoryKey(form), TRUE) ELSE S

Record(f, form, inst) == [func |-> f, flag |-> FormFlag(form), form |-> form, inst |-> inst]

Decorated(f, form, R) ==
    /\ cache' = R.cache
    /\ nextInst' = R.next
    /\ returned' = IF R.raised THEN returned ELSE returned \cup {Record(f, form, R.inst)}

\* a decoration of f that runs from start to end on its own
Decorate(f, form) ==
    /\ Decorated(f, form,
                 CachedCall(ThroughFactory([cache |-> cache, next |-> nextInst], form),
                            InstanceKey(f, form),
                            Construct(Desc(f), FormFlag(form)).ok))
    /\ UNCHANGED <<target, wrapper, last, pc, pending>>

NoPending == [func |-> NoFunc, form |-> "bare"]

\* lru_cache's wrapper up to the call of the class: a hit returns, a miss goes
\* on to construct, and other callers may run meanwhile
BeginAt(t, f, form, found) ==
    IF found # {}
    THEN /\ cache' = Touch(cache, Min(found))
         /\ returned' = returned \cup {Record(f, form, cache[Min(found)].inst)}
         /\ UNCHANGED <<pc, pending>>
    ELSE /\ pc' = [pc EXCEPT ![t] = "constructing"]
         /\ pending' = [pending EXCEPT ![t] = [func |-> f, form |-> form]]
         /\ UNCHANGED <<cache, returned>>

Begin(t, f, form) ==
    /\ pc[t] = "idle"
    /\ BeginAt(t, f, form, Find(cache, InstanceKey(f, form)))
    /\ UNCHANGED <<target, wrapper, last, nextInst>>

\* the class has returned: the result is stored unless the key was added
\* meanwhile, and the caller gets the object it constructed itself
FinishWith(t, f, form, c, found) ==
    IF ~c.ok
    THEN UNCHANGED <<cache, nextInst, returned>>
    ELSE /\ cache' = IF found # {} THEN cache
                     ELSE Insert(cache, InstanceKey(f, form), nextInst)
         /\ nextInst' = nextInst + 1
         /\ returned' = returned \cup {Record(f, form, nextInst)}

Finish(t) ==
    /\ pc[t] = "constructing"
    /\ FinishWith(t, pending[t].func, pending[t].form,
                  Construct(Desc(pending[t].func), FormFlag(pending[t].form)),
                  Find(cache, InstanceKey(pending[t].func, pending[t].form)))
    /\ pc' = [pc EXCEPT ![t] = "idle"]
    /\ pending' = [pending EXCEPT ![t] = NoPending]
    /\ UNCHANGED <<target, wrapper, last>>

InitMemo ==
    /\ cache = << >>
    /\ nextInst = 1
    /\ returned = {}
    /\ pc = [t \in Callers |-> "idle"]
    /\ pending = [t \in Callers |-> NoPending]

Init ==
    /\ target = NoTarget
    /\ wrapper = NoWrapper
    /\ last = NoLast
    /\ InitMemo

memoVars == <<cache, nextInst, returned, pc, pending>>

Constructed(c) ==
    /\ wrapper' = c.wrapper
    /\ last' = [NoLast EXCEPT !.op = "decorate", !.error = c.err,
                              !.out = IF c.ok THEN Return(NoneV) ELSE Propagate(c.err)]

\* @datafunction / @datafunction(is_method=True) applied to a function of the table
DecorateTarget(f, is_method) ==
    /\ ~wrapper.present
    /\ last.op = "none"
    /\ target' = [fd |-> FuncTable[f], is_method |-> is_method]
    /\ Constructed(Construct(FuncTable[f], is_method))
    /\ UNCHANGED memoVars

Ready == wrapper.present /\ last.op = "decorate"

\* wrapper.load_arguments(*args, **kwargs)
OpLoadArguments ==
    /\ Ready
    /\ \E args \in ArgSeqs, kwargs \in KwargSets :
          last' = [NoLast EXCEPT !.op = "load_arguments", !.args = args,
                                 !.kwargs = kwargs,
                                 !.out = LoadArguments(wrapper, args, kwargs)]
    /\ UNCHANGED <<target, wrapper, memoVars>>

\* wrapper.dump_arguments(*args, **kwargs)
OpDumpArguments ==
    /\ Ready
    /\ \E args \in ArgSeqs, kwargs \in KwargSets :
          last' = [NoLast EXCEPT !.op = "dump_arguments", !.args = args,
                                 !.kwargs = kwargs,
                                 !.out = DumpArguments(wrapper, args, kwargs)]
    /\ UNCHANGED <<target, wrapper, memoVars>>

RoundTripStep(args, kwargs, la) ==
    /\ la.kind = "return"
    /\ last' = [NoLast EXCEPT !.op = "roundtrip", !.args = args, !.kwargs = kwargs,
                              !.inner = la,
                              !.out = DumpArguments(wrapper, << >>, la.mapping)]

\* wrapper.dump_arguments(**wrapper.load_arguments(*args, **kwargs))
OpRoundTrip ==
    /\ Ready
    /\ \E args \in ArgSeqs, kwargs \in KwargSets :
          RoundTripStep(args, kwargs, LoadArguments(wrapper, args, kwargs))
    /\ UNCHANGED <<target, wrapper, memoVars>>

\* wrapper.load_result(v)
OpLoadResult ==
    /\ Ready
    /\ \E v \in ResultValues :
          last' = [NoLast EXCEPT !.op = "load_result", !.arg = v,
                                 !.out = LoadResult(wrapper, v)]
    /\ UNCHANGED <<target, wrapper, memoVars>>

\* wrapper.dump_result(v)
OpDumpResult ==
    /\ Ready
    /\ \E v \in ResultValues :
          last' = [NoLast EXCEPT !.op = "dump_result", !.arg = v,
                                 !.out = DumpResult(wrapper, v)]
    /\ UNCHANGED <<target, wrapper, memoVars>>

CallStep(op, instance, args, kwargs, fres, c) ==
    last' = [NoLast EXCEPT !.op = op, !.args = args, !.kwargs = kwargs,
                           !.instance = instance, !.fres = fres, !.out = c.out,
                           !.inner = c.inner, !.trace = c.trace,
                           !.funcargs = c.funcargs, !.dumparg = c.dumparg]

\* wrapper(*args, **kwargs)
OpCall ==
    /\ Ready
    /\ \E args \in ArgSeqs, kwargs \in KwargSets, fres \in FuncOutcomes :
          CallStep("call", NoneV, args, kwargs, fres, Call(wrapper, args, kwargs, fres))
    /\ UNCHANGED <<target, wrapper, memoVars>>

\* instance.attr(*args, **kwargs), attr being the wrapper found on the class
OpBoundCall ==
    /\ Ready
    /\ \E args \in ArgSeqs, kwargs \in KwargSets, fres \in FuncOutcomes :
          CallStep("bound_call", ObjV, args, kwargs, fres,
                   Call(wrapper, BoundArgs(ObjV, args), kwargs, fres))
    /\ UNCHANGED <<target, wrapper, memoVars>>

Next ==
    \/ \E f \in Funcs, m \in BOOLEAN : DecorateTarget(f, m)
    \/ OpLoadArguments
    \/ OpDumpArguments
    \/ OpRoundTrip
    \/ OpLoadResult
    \/ OpDumpResult
    \/ OpCall
    \/ OpBoundCall

Spec == Init /\ [][Next]_vars

(***************************************************************************)
(* Properties of the conversion operations and of direct invocation.       *)
(***************************************************************************)
\* the positional arguments the wrapper's __call__ received
EffArgs == IF last.op = "bound_call" THEN <<last.instance>> \o last.args ELSE last.args

\* the value the caller passed for the i-th declared parameter
PassedIn(i) ==
    IF i <= Len(EffArgs) THEN EffArgs[i]
    ELSE IF wrapper.params[i].name \in DOMAIN last.kwargs
    THEN last.kwargs[wrapper.params[i].name]
    ELSE wrapper.params[i].default

PassedInByName(n) == PassedIn(FieldIndex(wrapper.params, n))

Invoked == \E i \in 1..Len(last.trace) : last.trace[i] = "func"

CallOps == {"call", "bound_call"}

\* what the binder and the two schemas answer for the operation's inputs
BinderAnswer == Bind(wrapper.params, EffArgs, last.kwargs)
ParamsLoadAnswer == SchemaLoad(wrapper.params_schema, ArgumentsDicts(wrapper, EffArgs, last.kwargs).hinted)
ParamsDumpAnswer == SchemaDump(wrapper.params_schema, ArgumentsDicts(wrapper, EffArgs, last.kwargs).hinted)
ReturnLoadAnswer == SchemaLoad(ReturnSchema(wrapper), [k \in {"_return"} |-> last.arg])
ReturnDumpAnswer == SchemaDump(ReturnSchema(wrapper), [k \in {"_return"} |-> last.arg])

UncaughtLoadError(e) ==
    /\ BinderAnswer.ok
    /\ ~ParamsLoadAnswer.ok
    /\ ParamsLoadAnswer.err.type \notin {"TypeError", "ValidationError"}
    /\ e.etype = ParamsLoadAnswer.err.type
    /\ e.cause = NoError

Canonical(v) == IF v[1] = "numstr" THEN IntV(v[2]) ELSE v

Receiver == wrapper.params[1].name

\* C4: with is_method the first declared parameter is in neither hinted_names
\* nor the Parameter Schema; load_arguments returns all the declared parameters,
\* the receiver as passed in and never handed to the schema, the others loaded;
\* dump_arguments returns no entry for the receiver; the bound form passes the
\* instance as the first positional argument.
C4_MethodReceiver ==
    (wrapper.present /\ wrapper.is_method) =>
        /\ wrapper.hinted_names = Names(Tail(wrapper.params))
        /\ Receiver \notin HintedSet(wrapper)
        /\ Receiver \notin FieldNames(wrapper.params_schema)
        /\ (last.op = "load_arguments" /\ last.out.kind = "return") =>
              /\ DOMAIN last.out.mapping = NameSet(wrapper.params)
              /\ last.out.mapping[Receiver] = PassedIn(1)
              /\ Receiver \notin DOMAIN ArgumentsDicts(wrapper, last.args, last.kwargs).hinted
              /\ \A i \in 2..Len(wrapper.params) :
                    last.out.mapping[wrapper.params[i].name]
                        = FieldLoad(wrapper.params[i].ann, PassedIn(i)).value
        /\ (last.op = "dump_arguments" /\ last.out.kind = "return") =>
              /\ Receiver \notin DOMAIN last.out.mapping
              /\ DOMAIN last.out.mapping = HintedSet(wrapper)
        /\ (last.op = "bound_call" /\ Invoked) =>
              last.funcargs[Receiver] = last.instance

\* C4 witness: a method called through an instance received the instance as
\* self and the loaded x
C4_Witness ==
    /\ wrapper.present
    /\ wrapper.is_method
    /\ wrapper.name = "method"
    /\ last.op = "bound_call"
    /\ last.args = <<StrNum(3)>>
    /\ Invoked
    /\ last.funcargs = [n \in {"self", "x"} |-> IF n = "self" THEN ObjV ELSE IntV(3)]

C7_CauseCarried ==
    /\ (last.out.kind = "raise" /\ last.out.etype = "ArgumentError") =>
          /\ last.out.cause # NoError
          /\ last.op \in {"load_arguments", "call", "bound_call"} =>
                last.out.cause = IF ~BinderAnswer.ok THEN BinderAnswer.err
                                 ELSE ParamsLoadAnswer.err
          /\ last.op = "dump_arguments" =>
                last.out.cause = IF ~BinderAnswer.ok THEN BinderAnswer.err
                                 ELSE ParamsDumpAnswer.err
    /\ (last.out.kind = "raise" /\ last.out.etype = "ReturnError") =>
          /\ last.out.cause # NoError
          /\ last.op = "load_result" => last.out.cause = ReturnLoadAnswer.err
          /\ last.op = "dump_result" => last.out.cause = ReturnDumpAnswer.err
          /\ last.op \in CallOps =>
                last.out.cause
                    = SchemaDump(ReturnSchema(wrapper),
                                 [k \in {"_return"} |-> last.fres.value]).err

\* C7 witness: a call that leaves out a required argument raised ArgumentError
\* from the binder's TypeError
C7_Witness ==
    /\ last.op = "call"
    /\ last.out.etype = "ArgumentError"
    /\ last.out.cause = Error("TypeError", <<"missing a required argument", "x">>)

\* C10: a direct invocation runs load_arguments, then the callable, then
\* dump_result; the callable runs at most once, only when load_arguments
\* returned and with the mapping it returned; what the caller gets is
\* dump_result of the callable's result.
C10_CallOrder ==
    last.op \in CallOps =>
        /\ last.trace \in {<<"load_arguments">>, <<"load_arguments", "func">>,
                           <<"load_arguments", "func", "dump_result">>}
        /\ last.inner = LoadArguments(wrapper, EffArgs, last.kwargs)
        /\ last.inner.kind = "raise" => (~Invoked /\ last.out = last.inner)
        /\ Invoked => (last.inner.kind = "return" /\ last.funcargs = last.inner.mapping)
        /\ last.inner.kind = "return" => Invoked
        /\ (Invoked /\ last.fres.kind = "return") =>
              /\ Len(last.trace) = 3
              /\ last.dumparg = last.fres.value
              /\ last.out = DumpResult(wrapper, last.fres.value)
        /\ last.out.kind = "return" => Len(last.trace) = 3

\* C10 witness: foo("3") loaded x = 3 and y = 0, called foo with them and
\* returned the dumped result
C10_Witness ==
    /\ last.op = "call"
    /\ wrapper.name = "foo"
    /\ ~wrapper.is_method
    /\ last.args = <<StrNum(3)>>
    /\ last.kwargs = EmptyMap
    /\ last.funcargs = [n \in {"x", "y"} |-> IF n = "x" THEN IntV(3) ELSE IntV(0)]
    /\ last.fres = Return(StrNum(3))
    /\ last.out = Return(IntV(3))

(***************************************************************************)
(* Construction over every signature: the function under decoration is     *)
(* any function of at most MaxParams parameters.                           *)
(***************************************************************************)
MaxParams == 2
ParamNames == <<"a", "b", "c", "d">>

KindRank(k) == CHOOSE i \in 1..Len(Kinds) : Kinds[i] = k

\* the orders of parameter kinds Python accepts in a def
ValidKinds(ks) ==
    \A i \in 1..Len(ks), j \in 1..Len(ks) :
        i < j => /\ KindRank(ks[i]) <= KindRank(ks[j])
                 /\ ks[i] = ks[j] => ks[i] \notin {"VAR_POSITIONAL", "VAR_KEYWORD"}

KindSeqs == {ks \in UNION {[1..k -> {Kinds[i] : i \in 1..Len(Kinds)}] : k \in 0..MaxParams} :
                ValidKinds(ks)}

\* def f(...) with parameters of kinds ks, each annotated int or not at all, and
\* a return annotation of int, of None, or none
CandidatesOf(ks) ==
    {[fd |-> [name |-> "f",
              params |-> [i \in 1..Len(ks) |->
                             Param(ParamNames[i], ks[i], anns[i], FALSE, NoneV)],
              ret |-> ret],
      is_method |-> m] :
        anns \in [1..Len(ks) -> {"int", "missing"}],
        ret \in {"int", "NoneType", "missing"}, m \in BOOLEAN}

Candidates == UNION {CandidatesOf(ks) : ks \in KindSeqs}

InitCandidate ==
    /\ target \in Candidates
    /\ wrapper = NoWrapper
    /\ last = NoLast
    /\ InitMemo

\* datafunction(f, is_method=...) for the function under decoration
DecorateCandidate ==
    /\ last.op = "none"
    /\ Constructed(Construct(target.fd, target.is_method))
    /\ UNCHANGED <<target, memoVars>>

SpecInit == InitCandidate /\ [][DecorateCandidate]_vars

(***************************************************************************)
(* The memo under decorations that follow one another, in every form.      *)
(***************************************************************************)
\* objects the class constructs in one run
MaxObjects == 3
MemoFuncs == {Fn("foo"), Fn("method")}

DecorateAny ==
    /\ nextInst <= MaxObjects
    /\ \E f \in MemoFuncs, form \in Forms : Decorate(f, form)

SpecMemo == Init /\ [][DecorateAny]_vars

(***************************************************************************)
(* The memo in a program that decorates many functions: foo, and one       *)
(* function after another of the rest.                                     *)
(***************************************************************************)
\* the other decorated functions of the program
NumFillers == 128

FillersDecorated == Cardinality({r \in returned : r.func[1] = "filler"})

DecorateFoo == Decorate(Fn("foo"), "bare")

\* foo is the first function the program decorates
FooDecorated == \E r \in returned : r.func = Fn("foo")

DecorateNextFiller ==
    /\ FooDecorated
    /\ FillersDecorated < NumFillers
    /\ Decorate(Filler(FillersDecorated + 1), "bare")

NextEvict == DecorateFoo \/ DecorateNextFiller

SpecEvict == Init /\ [][NextEvict]_vars

(***************************************************************************)
(* The memo under callers that decorate at the same time.                  *)
(***************************************************************************)
RaceForms == {"bare", "kw_true"}

BeginAny ==
    /\ nextInst <= MaxObjects
    /\ \E t \in Callers, f \in MemoFuncs, form \in RaceForms : Begin(t, f, form)

FinishAny == \E t \in Callers : Finish(t)

NextRace == BeginAny \/ FinishAny

SpecRace == Init /\ [][NextRace]_vars

(***************************************************************************)
(* Properties of decoration.                                               *)
(***************************************************************************)
\* C2: decorations of one callable with one method flag return one instance,
\* whichever of the forms datafunction(f), datafunction(f, is_method=False),
\* datafunction()(f), and datafunction(f, is_method=True),
\* datafunction(is_method=True)(f), is used.
C2_SameInstanceAcrossForms ==
    \A r1 \in returned, r2 \in returned :
        (r1.func = r2.func /\ FormFlag(r1.form) = FormFlag(r2.form)) => r1.inst = r2.inst

\* the parameters the claim calls hinted: all of them, but for a method's receiver
ClaimedHinted(t) ==
    IF t.is_method /\ Len(t.fd.params) > 0 THEN Tail(t.fd.params) ELSE t.fd.params

Unannotated(t) == {p.name : p \in {ClaimedHinted(t)[i] : i \in 1..Len(ClaimedHinted(t))}}
                     \cap {t.fd.params[i].name : i \in {j \in 1..Len(t.fd.params) :
                                                         t.fd.params[j].ann = "missing"}}

BadKind(t) == {ClaimedHinted(t)[i] : i \in {j \in 1..Len(ClaimedHinted(t)) :
                  ClaimedHinted(t)[j].kind \in {"VAR_POSITIONAL", "VAR_KEYWORD",
                                                "POSITIONAL_ONLY"}}}

\* C6: decoration fails with a TypeError, and leaves no wrapper, exactly when a
\* hinted parameter or the return slot has no annotation or a hinted parameter
\* is variadic or positional-only; the message names the missing slot, or the
\* offending parameter and its kind; the receiver of a method is exempt.
C6_TypeErrorExactly ==
    last.op = "decorate" =>
        /\ (last.error.type = "TypeError" /\ ~wrapper.present)
              <=> (Unannotated(target) # {} \/ target.fd.ret = "missing"
                   \/ BadKind(target) # {})
        /\ last.error.type \notin {"ArgumentError", "ReturnError"}
        /\ last.error.type = "TypeError" =>
              \/ /\ last.error.msg[1] = "Missing annotation for"
                 /\ last.error.msg[2] \in Unannotated(target)
                                          \cup (IF target.fd.ret = "missing"
                                                THEN {"return"} ELSE {})
              \/ /\ last.error.msg[1] = "invalid kind"
                 /\ \E p \in BadKind(target) :
                       last.error.msg[2] = p.name /\ last.error.msg[3] = p.kind

\* C8: once a callable has been decorated with a method flag, every later
\* decoration of the same callable with the same flag returns the instance the
\* earlier ones returned, whatever was decorated in between.
C8_NeverEvicted ==
    \A r1 \in returned, r2 \in returned :
        (r1.func = r2.func /\ r1.flag = r2.flag) => r1.inst = r2.inst

NoDuplicateKeys == \A i \in 1..Len(cache), j \in 1..Len(cache) :
                      cache[i].key = cache[j].key => i = j

\* C9: under callers that decorate at the same time the memo stays well formed
\* (one entry per key, no more than maxsize entries, every entry an object that
\* was constructed) and every caller, racing or later, gets one and the same
\* instance for a callable and a method flag.
C9_RacingCallersShareInstance ==
    /\ NoDuplicateKeys
    /\ Len(cache) <= maxsize
    /\ \A i \in 1..Len(cache) : cache[i].inst \in 1..(nextInst - 1)
    /\ \A f \in MemoFuncs, m \in BOOLEAN :
          Cardinality({r.inst : r \in {q \in returned : q.func = f /\ q.flag = m}}) <= 1

====
